---------------------------- MODULE Spec2Model ----------------------------
(***************************************************************************)
(* READ2ME, TTS/tts_engines.py: the worker-backed engine (FishTTSEngine).  *)
(*                                                                         *)
(* One engine instance is modelled: its constructor, the worker thread     *)
(* started by launch_thread_safe_queue, and a bounded number of calls of   *)
(* generate_audio (a coroutine on the caller's event loop, whose blocking  *)
(* response_queue.get runs on an executor thread) and of inference (a      *)
(* synchronous generator draining its response queue in its own thread).   *)
(* This is the specification Spec.                                         *)
(*                                                                         *)
(* The other operations of the module are each followed over one call,     *)
(* from every combination of arguments, under a specification of their     *)
(* own: SpecStyle (StyleTTS2Engine.generate_audio), SpecPick               *)
(* (TTSEngine.pick_random_voice), SpecExport (TTSEngine.export_audio) and  *)
(* SpecList (get_available_voices of the directory-backed engines).        *)
(***************************************************************************)
EXTENDS Integers, Sequences, FiniteSets, TLC

\* ------------------------------------------------------------------ bounds
\* number of generate_audio / inference calls made on the engine
NumCalls == 2
\* largest number of "sample" chunks one run of generate_long yields
MaxChunks == 2

Calls == 1..NumCalls

\* ------------------------------------------------------------------ inputs
Texts == {"", "hello"}
\* amy.wav is a usable reference, there is no bob.wav
VoiceIds == {"amy", "bob"}
\* Python's None, where a string is expected
None == "None"
\* Python's None, where an array or a list is expected
NoArray == << >>
\* no GenerateRequest (the worker's item before its first get)
NoItem ==
  [id |-> 0, seq |-> 0, text |-> None, prompt_tokens |-> NoArray,
   response_queue |-> 0]

VARIABLES
  ctorPc,          \* position of FishTTSEngine.__init__
  workerPc,        \* position of the worker thread
  init_event,      \* threading.Event of launch_thread_safe_queue
  model_loads,     \* times load_model returned in the worker
  cache_setups,    \* times model.setup_caches returned in the worker
  voices_dir,      \* voice -> the files <voice>.wav / <voice>.npy
  input_queue,     \* self.llama_queue: Seq of GenerateRequest
  response_queue,  \* call -> its queue.Queue of WrappedGenerateResponse
  item,            \* the GenerateRequest the worker holds, or None
  genPos,          \* sample chunks the running generate_long has yielded
  genEnded,        \* the running generate_long has yielded its "next" chunk
  callPc,          \* call -> position of the call
  segments,        \* call -> the local list segments
  outputs,         \* call -> what the call returned, raised or yielded
  temp_output_wav, \* content of the file temp_output.wav
  puts,            \* history: number of llama_queue.put calls so far
  gets,            \* history: number of requests input_queue.get returned
  ends,            \* history: number of generate_long runs that ended
  pushed           \* history: call -> everything ever put on its queue

\* the other operations of the module are checked one call at a time, each
\* under a specification of its own, with the variables below; the worker-
\* backed engine leaves them alone
VARIABLES
  pickPc,            \* position of the pick_random_voice call
  available_voices,  \* its argument available_voices (a list)
  previous_voice,    \* its argument previous_voice
  picked,            \* what the call returned or raised
  exportPc,          \* position of the export_audio call
  export_args,       \* its arguments title, vtt_temp_file, audio_type, *_id
  export_log,        \* history: the calls export_audio made, in order
  export_failed,     \* history: the call of export_audio that raised
  stylePc,           \* position of the StyleTTS2Engine.generate_audio call
  style_text,        \* its argument text
  texts,             \* its local texts = txtsplit(text)
  style_i,           \* segments of texts its for loop has gone through
  audios,            \* its local list audios
  style_out,         \* what the call returned or raised
  listPc,            \* position of the get_available_voices call
  list_engine,       \* the engine variant it is called on
  list_dir,          \* the voices directory of that engine
  listed             \* what the call returned or raised

vars == << ctorPc, workerPc, init_event, model_loads, cache_setups, voices_dir,
           input_queue, response_queue, item, genPos, genEnded,
           callPc, segments, outputs, temp_output_wav, puts, gets, ends,
           pushed,
           pickPc, available_voices, previous_voice, picked,
           exportPc, export_args, export_log, export_failed,
           stylePc, style_text, texts, style_i, audios, style_out,
           listPc, list_engine, list_dir, listed >>

ctorVars == << ctorPc, voices_dir >>
workerVars == << workerPc, init_event, model_loads, cache_setups, item, genPos,
                 genEnded, gets, ends >>
callVars == << callPc, segments, outputs, temp_output_wav >>
queueVars == << input_queue, response_queue, puts, pushed >>

pickVars == << pickPc, available_voices, previous_voice, picked >>
exportVars == << exportPc, export_args, export_log, export_failed >>
styleVars == << stylePc, style_text, texts, style_i, audios, style_out >>
listVars == << listPc, list_engine, list_dir, listed >>
otherVars == << pickVars, exportVars, styleVars, listVars >>
fishVars == << ctorVars, workerVars, callVars, queueVars >>

\* ---------------------------------------------------------------- messages
\* GenerateResponse(action="sample", codes=...) wrapped with status "success"
SampleChunk(rid, k) ==
  [status |-> "success", action |-> "sample", codes |-> << rid, k >>]
\* GenerateResponse(action="next"): the end-of-generation marker
NextChunk == [status |-> "success", action |-> "next", codes |-> NoArray]
\* WrappedGenerateResponse(status="error", response=e)
ErrorResponse == [status |-> "error", action |-> None, codes |-> NoArray]

IsTerminal(m) == m.status = "error" \/ m.action = "next"

\* decode_vq_tokens: the waveform decoded from one chunk of codes
decode_vq_tokens(codes) == << [pcm |-> codes] >>

RECURSIVE concatenate_reversed(_)
\* mutant of concatenate: the fragments are joined last first
concatenate_reversed(segs) ==
  IF segs = << >> THEN << >> ELSE concatenate_reversed(Tail(segs)) \o Head(segs)

RECURSIVE concatenate(_)
\* np.concatenate(segments): the fragments joined in list order
concatenate(segs) ==
  IF segs = << >> THEN << >> ELSE Head(segs) \o concatenate(Tail(segs))

\* AudioSegment.from_wav(file)
from_wav(file) == [frames |-> file]

\* ------------------------------------------------------------ voice files
WavOk == [exists |-> TRUE, readable |-> TRUE, size |-> 3, sr |-> 2]
NoWav == [exists |-> FALSE, readable |-> FALSE, size |-> 0, sr |-> 1]

\* one pass of the loop body of _prepare_reference_files over <v>.wav
PreparedNpy(f) ==
  IF ~f.wav.exists THEN f.npy
  ELSE IF f.npy THEN TRUE
  ELSE IF ~f.wav.readable THEN FALSE
  ELSE IF f.wav.size = 0 THEN FALSE
  ELSE IF f.wav.size < f.wav.sr THEN FALSE   \* duration = size / sr < 1.0
  ELSE TRUE

\* _load_reference_tokens(voice_id)
_load_reference_tokens(voice_id) ==
  IF voices_dir[voice_id].npy THEN << voice_id >> ELSE NoArray

\* the list get_available_voices returns
ListedVoices == { v \in VoiceIds : voices_dir[v].wav.exists }

\* ------------------------------------------------ calls that are not made
\* what a call that has not ended has returned or raised: nothing
NoOutcome == [kind |-> None, value |-> None]
\* the same for a call whose result is audio
NoOutput == [kind |-> None, shape |-> None, audio |-> << >>, error |-> None]
\* the same for a call whose result is a list of voices
NoListing == [kind |-> None, voices |-> {}, error |-> None]
\* export_audio before its arguments are bound
NoExportArgs ==
  [title |-> None, vtt_temp_file |-> None, audio_type |-> None,
   article_id |-> None, text_id |-> 0, podcast_id |-> 0]
\* no directory is looked at
NoDir == [exists |-> FALSE, readable |-> FALSE, entries |-> {}]

\* pick_random_voice is not called
PickIdle ==
  /\ pickPc = "idle"
  /\ available_voices = << >>
  /\ previous_voice = None
  /\ picked = NoOutcome

\* export_audio is not called
ExportIdle ==
  /\ exportPc = "idle"
  /\ export_args = NoExportArgs
  /\ export_log = << >>
  /\ export_failed = None

\* StyleTTS2Engine.generate_audio is not called
StyleIdle ==
  /\ stylePc = "idle"
  /\ style_text = [length |-> 0, blank |-> TRUE]
  /\ texts = << >>
  /\ style_i = 0
  /\ audios = << >>
  /\ style_out = NoOutput

\* get_available_voices of the directory-backed engines is not called
ListIdle ==
  /\ listPc = "idle"
  /\ list_engine = None
  /\ list_dir = NoDir
  /\ listed = NoListing

\* -------------------------------------------------------------------- Init
\* the worker-backed engine before its constructor runs, but for the files
\* of its voices directory
FishStart ==
  /\ ctorPc = "launch"
  /\ workerPc = "unstarted"
  /\ init_event = FALSE
  /\ model_loads = 0
  /\ cache_setups = 0
  /\ input_queue = << >>
  /\ response_queue = [c \in Calls |-> << >>]
  /\ item = NoItem
  /\ genPos = 0
  /\ genEnded = FALSE
  /\ callPc = [c \in Calls |-> "new"]
  /\ segments = [c \in Calls |-> << >>]
  /\ outputs = [c \in Calls |-> << >>]
  /\ temp_output_wav = << >>
  /\ puts = 0
  /\ gets = 0
  /\ ends = 0
  /\ pushed = [c \in Calls |-> << >>]

\* the same with a voices directory holding amy.wav and nothing else
FishInit ==
  /\ FishStart
  /\ voices_dir = [v \in VoiceIds |->
                     [wav |-> IF v = "amy" THEN WavOk ELSE NoWav,
                      npy |-> FALSE]]

Init ==
  /\ FishInit
  /\ PickIdle
  /\ ExportIdle
  /\ StyleIdle
  /\ ListIdle


\* ---------------------------------------------- FishTTSEngine.__init__
\* launch_thread_safe_queue up to init_event.wait(): the queue and the event
\* are created and the worker thread is started
launch_thread_safe_queue ==
  /\ ctorPc = "launch"
  /\ ctorPc' = "wait_init"
  /\ workerPc' = "load_model"
  /\ input_queue' = << >>
  /\ init_event' = FALSE
  /\ UNCHANGED << voices_dir, model_loads, cache_setups, item,
                  genPos, genEnded, gets, ends, response_queue, puts,
                  pushed,
                  callVars >>
  /\ UNCHANGED otherVars

\* mutant of init_event_wait: launch_thread_safe_queue returns the queue
\* without waiting for the event
init_event_wait_no_barrier ==
  /\ ctorPc = "wait_init"
  /\ ctorPc' = "load_decoder"
  /\ UNCHANGED << voices_dir, workerVars, queueVars, callVars >>
  /\ UNCHANGED otherVars

\* init_event.wait() returns and launch_thread_safe_queue returns the queue,
\* which __init__ stores as self.llama_queue
init_event_wait ==
  /\ ctorPc = "wait_init"
  /\ init_event
  /\ ctorPc' = "load_decoder"
  /\ UNCHANGED << voices_dir, workerVars, queueVars, callVars >>
  /\ UNCHANGED otherVars

\* load_decoder_model(...)
load_decoder_model ==
  /\ ctorPc = "load_decoder"
  /\ ctorPc' = "prepare_refs"
  /\ UNCHANGED << voices_dir, workerVars, queueVars, callVars >>
  /\ UNCHANGED otherVars

\* _prepare_reference_files(): every .wav of voices_dir is visited
_prepare_reference_files ==
  /\ ctorPc = "prepare_refs"
  /\ voices_dir' = [v \in VoiceIds |->
                      [voices_dir[v] EXCEPT !.npy = PreparedNpy(voices_dir[v])]]
  /\ ctorPc' = "done"
  /\ UNCHANGED << workerVars, queueVars, callVars >>
  /\ UNCHANGED otherVars

\* the engine object exists: its methods can be called
Constructed == ctorPc = "done"

\* ------------------------------------------------------- the worker thread
\* self.load_model(...) returns
worker_load_model ==
  /\ workerPc = "load_model"
  /\ workerPc' = "setup_caches"
  /\ model_loads' = model_loads + 1
  /\ UNCHANGED << ctorVars, init_event, cache_setups, item, genPos, genEnded,
                  gets, ends, queueVars, callVars >>
  /\ UNCHANGED otherVars

\* mutant of worker_init_raises: the event is set on the way out of the
\* failed thread
worker_init_raises_sets_event ==
  /\ workerPc \in {"load_model", "setup_caches"}
  /\ workerPc' = "dead"
  /\ init_event' = TRUE
  /\ UNCHANGED << ctorVars, model_loads, cache_setups,
                  item, genPos, genEnded, gets, ends, queueVars, callVars >>
  /\ UNCHANGED otherVars

\* self.load_model(...) or model.setup_caches(...) raises: the thread ends
worker_init_raises ==
  /\ workerPc \in {"load_model", "setup_caches"}
  /\ workerPc' = "dead"
  /\ UNCHANGED << ctorVars, init_event, model_loads, cache_setups,
                  item, genPos, genEnded, gets, ends, queueVars, callVars >>
  /\ UNCHANGED otherVars

\* model.setup_caches(...) returns
worker_setup_caches ==
  /\ workerPc = "setup_caches"
  /\ workerPc' = "set_event"
  /\ cache_setups' = cache_setups + 1
  /\ UNCHANGED << ctorVars, init_event, model_loads, item, genPos, genEnded,
                  gets, ends, queueVars, callVars >>
  /\ UNCHANGED otherVars

\* init_event.set()
worker_init_event_set ==
  /\ workerPc = "set_event"
  /\ init_event' = TRUE
  /\ workerPc' = "get"
  /\ UNCHANGED << ctorVars, model_loads, cache_setups, item, genPos, genEnded,
                  gets, ends, queueVars, callVars >>
  /\ UNCHANGED otherVars

\* generate_long(**kwargs) as the worker's for loop sees it, after pos
\* "sample" chunks: what the generator does when asked for its next chunk.
\* It yields GenerateResponse(action="sample") chunks, then
\* GenerateResponse(action="next") and returns; or it raises on the way.
generate_long(pos, ended) ==
  IF ended THEN {"return"}
  ELSE (IF pos < MaxChunks THEN {"sample"} ELSE {}) \cup {"next", "raise"}

\* the chunk generate_long yields for the request rid at event ev
YieldedChunk(rid, pos, ev) ==
  IF ev = "sample" THEN SampleChunk(rid, pos + 1) ELSE NextChunk

\* mutant of worker_get: the newest request is taken first
worker_get_lifo ==
  /\ workerPc = "get"
  /\ input_queue # << >>
  /\ item' = input_queue[Len(input_queue)]
  /\ input_queue' = SubSeq(input_queue, 1, Len(input_queue) - 1)
  /\ gets' = gets + 1
  /\ genPos' = 0
  /\ genEnded' = FALSE
  /\ workerPc' = "generate"
  /\ UNCHANGED << ctorVars, init_event, model_loads, cache_setups,
                  ends, response_queue, puts, pushed, callVars >>
  /\ UNCHANGED otherVars

\* mutant of worker_get: a request is taken while another is being generated
worker_get_reentrant ==
  /\ workerPc \in {"get", "generate"}
  /\ input_queue # << >>
  /\ item' = Head(input_queue)
  /\ input_queue' = Tail(input_queue)
  /\ gets' = gets + 1
  /\ genPos' = 0
  /\ genEnded' = FALSE
  /\ workerPc' = "generate"
  /\ UNCHANGED << ctorVars, init_event, model_loads, cache_setups,
                  ends, response_queue, puts, pushed, callVars >>
  /\ UNCHANGED otherVars

\* item = input_queue.get(): blocks while the queue is empty, takes its head
worker_get ==
  /\ workerPc = "get"
  /\ input_queue # << >>
  /\ item' = Head(input_queue)
  /\ input_queue' = Tail(input_queue)
  /\ gets' = gets + 1
  /\ genPos' = 0
  /\ genEnded' = FALSE
  /\ workerPc' = "generate"
  /\ UNCHANGED << ctorVars, init_event, model_loads, cache_setups,
                  ends, response_queue, puts, pushed, callVars >>
  /\ UNCHANGED otherVars

\* back at input_queue.get() the worker's locals item, kwargs, response_queue
\* and the generator are dead: get() overwrites them before they are read
ClearDeadLocals ==
  /\ item' = NoItem
  /\ genPos' = 0
  /\ genEnded' = FALSE

\* mutant of ResponseQueueFull: the response queue holds one chunk at most
ResponseQueueFull_maxsize1(q) == Len(response_queue[q]) >= 1

\* response_queue = queue.Queue(): no maxsize, so the queue is never full
ResponseQueueFull(q) == FALSE

\* response_queue.put(m) on the response queue q: blocks while q is full
put_response(q, m) ==
  /\ ~ResponseQueueFull(q)
  /\ response_queue' = [response_queue EXCEPT ![q] = Append(@, m)]
  /\ pushed' = [pushed EXCEPT ![q] = Append(@, m)]

\* mutant of worker_put_chunk: the chunk is put on one queue shared by all
\* requests instead of the request's own response queue
worker_put_chunk_shared ==
  /\ workerPc = "generate"
  /\ \E ev \in generate_long(genPos, genEnded) \cap {"sample", "next"} :
       /\ put_response(1, YieldedChunk(item.id, genPos, ev))
       /\ genPos' = IF ev = "sample" THEN genPos + 1 ELSE genPos
       /\ genEnded' = (ev = "next")
  /\ UNCHANGED << ctorVars, workerPc, init_event, model_loads,
                  cache_setups, item, gets, ends, input_queue, puts,
                  callVars >>
  /\ UNCHANGED otherVars

\* mutant of worker_put_chunk: the "next" chunk is consumed by the worker and
\* not put on the response queue
worker_put_chunk_keeps_marker ==
  /\ workerPc = "generate"
  /\ \E ev \in generate_long(genPos, genEnded) \cap {"sample", "next"} :
       /\ IF ev = "sample"
          THEN put_response(item.response_queue,
                            YieldedChunk(item.id, genPos, ev))
          ELSE UNCHANGED << response_queue, pushed >>
       /\ genPos' = IF ev = "sample" THEN genPos + 1 ELSE genPos
       /\ genEnded' = (ev = "next")
  /\ UNCHANGED << ctorVars, workerPc, init_event, model_loads,
                  cache_setups, item, gets, ends, input_queue, puts,
                  callVars >>
  /\ UNCHANGED otherVars

\* the body of the for loop: generate_long yields a chunk and the worker puts
\* it, wrapped with status "success", on the request's response queue
worker_put_chunk ==
  /\ workerPc = "generate"
  /\ \E ev \in generate_long(genPos, genEnded) \cap {"sample", "next"} :
       /\ put_response(item.response_queue, YieldedChunk(item.id, genPos, ev))
       /\ genPos' = IF ev = "sample" THEN genPos + 1 ELSE genPos
       /\ genEnded' = (ev = "next")
  /\ UNCHANGED << ctorVars, workerPc, init_event, model_loads,
                  cache_setups, item, gets, ends, input_queue, puts,
                  callVars >>
  /\ UNCHANGED otherVars

\* generate_long returns: the for loop ends and the worker loops to get()
worker_loop_end ==
  /\ workerPc = "generate"
  /\ "return" \in generate_long(genPos, genEnded)
  /\ workerPc' = "get"
  /\ ends' = ends + 1
  /\ ClearDeadLocals
  /\ UNCHANGED << ctorVars, init_event, model_loads, cache_setups, gets,
                  queueVars, callVars >>
  /\ UNCHANGED otherVars

\* mutant of worker_except: the exception is caught and nothing is put
worker_except_silent ==
  /\ workerPc = "generate"
  /\ "raise" \in generate_long(genPos, genEnded)
  /\ workerPc' = "get"
  /\ ends' = ends + 1
  /\ ClearDeadLocals
  /\ UNCHANGED << ctorVars, init_event, model_loads, cache_setups, gets,
                  queueVars, callVars >>
  /\ UNCHANGED otherVars

\* mutant of worker_except: the exception is not caught and ends the thread
worker_except_uncaught ==
  /\ workerPc = "generate"
  /\ "raise" \in generate_long(genPos, genEnded)
  /\ workerPc' = "dead"
  /\ ends' = ends + 1
  /\ ClearDeadLocals
  /\ UNCHANGED << ctorVars, init_event, model_loads, cache_setups, gets,
                  queueVars, callVars >>
  /\ UNCHANGED otherVars

\* generate_long raises: the except clause puts status "error" and the worker
\* loops to get()
worker_except ==
  /\ workerPc = "generate"
  /\ "raise" \in generate_long(genPos, genEnded)
  /\ put_response(item.response_queue, ErrorResponse)
  /\ workerPc' = "get"
  /\ ends' = ends + 1
  /\ ClearDeadLocals
  /\ UNCHANGED << ctorVars, init_event, model_loads, cache_setups, gets,
                  input_queue, puts, callVars >>
  /\ UNCHANGED otherVars

\* ------------------------------------------------------- generate_audio
\* what a finished call leaves of its frame
DropFrame(c) ==
  segments' = [segments EXCEPT ![c] = << >>]

\* GenerateRequest(request=..., response_queue=...); id is the identity of
\* the request object, seq (history) is set when the request is put
GenerateRequest(c, text, prompt_tokens) ==
  [id |-> c, seq |-> 0, text |-> text, prompt_tokens |-> prompt_tokens,
   response_queue |-> c]

\* self.llama_queue.put(request); the request is the seq-th one put
llama_queue_put(request) ==
  /\ input_queue' = Append(input_queue, [request EXCEPT !.seq = puts + 1])
  /\ puts' = puts + 1

\* mutant of BlocksEventLoop: response_queue.get() is called by the
\* coroutine itself and holds the event loop thread while the queue is empty
BlocksEventLoop_direct_get(c) ==
  callPc[c] = "await_get" /\ response_queue[c] = << >>

\* the call c holds the event loop thread: never, its blocking
\* response_queue.get runs on a thread of the executor (loop.run_in_executor)
\* and the coroutine is suspended at the await
BlocksEventLoop(c) == FALSE

\* the event loop thread is free to run a step of a coroutine
EventLoopRuns == \A c \in Calls : ~BlocksEventLoop(c)

\* generate_audio(text, voice_id) from its first line to its first await: the
\* response queue and the request are created, the request is put on
\* llama_queue and response_queue.get is handed to an executor thread
generate_audio(c) ==
  /\ Constructed
  /\ EventLoopRuns
  /\ callPc[c] = "new"
  /\ \E text \in Texts, voice_id \in VoiceIds :
       llama_queue_put(
         GenerateRequest(c, text, _load_reference_tokens(voice_id)))
  /\ response_queue' = [response_queue EXCEPT ![c] = << >>]
  /\ callPc' = [callPc EXCEPT ![c] = "await_get"]
  /\ UNCHANGED << ctorVars, workerVars, pushed, segments,
                  outputs, temp_output_wav >>
  /\ UNCHANGED otherVars

Raised(msg) == [kind |-> "raise", shape |-> None, audio |-> << >>, error |-> msg]
\* generate_audio ends with "return audio_segment"
ReturnedAudio(audio_segment) ==
  [kind |-> "return", shape |-> "audio", audio |-> audio_segment.frames,
   error |-> None]

\* mutant of generate_audio_resume: the coroutine is suspended between
\* writing temp_output.wav and reading it, and reads what the file held
\* before its own write
generate_audio_resume_stale_read(c) ==
  /\ EventLoopRuns
  /\ callPc[c] = "await_get"
  /\ response_queue[c] # << >>
  /\ response_queue' = [response_queue EXCEPT ![c] = Tail(@)]
  /\ LET result == Head(response_queue[c]) IN
       IF result.status = "error" THEN
         \* raise Exception("Error in inference: ..."), logged and re-raised
         /\ outputs' = [outputs EXCEPT ![c] = Append(@, Raised("Error in inference"))]
         /\ callPc' = [callPc EXCEPT ![c] = "raised"]
         /\ DropFrame(c)
         /\ UNCHANGED temp_output_wav
       ELSE IF result.action = "next" THEN
         \* break
         IF Len(segments[c]) = 0 THEN
           /\ outputs' = [outputs EXCEPT ![c] = Append(@, Raised("No audio generated"))]
           /\ callPc' = [callPc EXCEPT ![c] = "raised"]
           /\ DropFrame(c)
           /\ UNCHANGED temp_output_wav
         ELSE
           \* sf.write(temp_wav_file, ...); AudioSegment.from_wav(temp_wav_file)
           /\ temp_output_wav' = concatenate(segments[c])
           /\ outputs' = [outputs EXCEPT ![c] =
                            Append(@, ReturnedAudio(from_wav(temp_output_wav)))]
           /\ callPc' = [callPc EXCEPT ![c] = "returned"]
           /\ DropFrame(c)
       ELSE
         /\ segments' = [segments EXCEPT ![c] =
                           Append(@, decode_vq_tokens(result.codes))]
         /\ UNCHANGED << callPc, outputs, temp_output_wav >>
  /\ UNCHANGED << ctorVars, workerVars, input_queue, puts, pushed >>
  /\ UNCHANGED otherVars

\* mutant of generate_audio_resume: the test len(segments) == 0 is left
\* out
generate_audio_resume_no_empty_check(c) ==
  /\ EventLoopRuns
  /\ callPc[c] = "await_get"
  /\ response_queue[c] # << >>
  /\ response_queue' = [response_queue EXCEPT ![c] = Tail(@)]
  /\ LET result == Head(response_queue[c]) IN
       IF result.status = "error" THEN
         \* raise Exception("Error in inference: ..."), logged and re-raised
         /\ outputs' = [outputs EXCEPT ![c] = Append(@, Raised("Error in inference"))]
         /\ callPc' = [callPc EXCEPT ![c] = "raised"]
         /\ DropFrame(c)
         /\ UNCHANGED temp_output_wav
       ELSE IF result.action = "next" THEN
         \* break
         IF FALSE THEN
           UNCHANGED << outputs, callPc, segments, temp_output_wav >>
         ELSE
           \* sf.write(temp_wav_file, ...); AudioSegment.from_wav(temp_wav_file)
           /\ temp_output_wav' = concatenate(segments[c])
           /\ outputs' = [outputs EXCEPT ![c] =
                            Append(@, ReturnedAudio(from_wav(temp_output_wav')))]
           /\ callPc' = [callPc EXCEPT ![c] = "returned"]
           /\ DropFrame(c)
       ELSE
         /\ segments' = [segments EXCEPT ![c] =
                           Append(@, decode_vq_tokens(result.codes))]
         /\ UNCHANGED << callPc, outputs, temp_output_wav >>
  /\ UNCHANGED << ctorVars, workerVars, input_queue, puts, pushed >>
  /\ UNCHANGED otherVars

\* response_queue.get() on the executor thread blocks while the queue is
\* empty and takes its head; the coroutine resumes with it as the awaited
\* result and runs to its next await, its return or its raise
generate_audio_resume(c) ==
  /\ EventLoopRuns
  /\ callPc[c] = "await_get"
  /\ response_queue[c] # << >>
  /\ response_queue' = [response_queue EXCEPT ![c] = Tail(@)]
  /\ LET result == Head(response_queue[c]) IN
       IF result.status = "error" THEN
         \* raise Exception("Error in inference: ..."), logged and re-raised
         /\ outputs' = [outputs EXCEPT ![c] = Append(@, Raised("Error in inference"))]
         /\ callPc' = [callPc EXCEPT ![c] = "raised"]
         /\ DropFrame(c)
         /\ UNCHANGED temp_output_wav
       ELSE IF result.action = "next" THEN
         \* break
         IF Len(segments[c]) = 0 THEN
           /\ outputs' = [outputs EXCEPT ![c] = Append(@, Raised("No audio generated"))]
           /\ callPc' = [callPc EXCEPT ![c] = "raised"]
           /\ DropFrame(c)
           /\ UNCHANGED temp_output_wav
         ELSE
           \* sf.write(temp_wav_file, ...); AudioSegment.from_wav(temp_wav_file)
           /\ temp_output_wav' = concatenate(segments[c])
           /\ outputs' = [outputs EXCEPT ![c] =
                            Append(@, ReturnedAudio(from_wav(temp_output_wav')))]
           /\ callPc' = [callPc EXCEPT ![c] = "returned"]
           /\ DropFrame(c)
       ELSE
         /\ segments' = [segments EXCEPT ![c] =
                           Append(@, decode_vq_tokens(result.codes))]
         /\ UNCHANGED << callPc, outputs, temp_output_wav >>
  /\ UNCHANGED << ctorVars, workerVars, input_queue, puts, pushed >>
  /\ UNCHANGED otherVars

\* ------------------------------------------------------------ inference
\* yield None, None, msg
YieldedError(msg) ==
  [kind |-> "yield", shape |-> "triple", audio |-> << >>, error |-> msg]
\* yield None, (24000, audio), None
YieldedAudio(audio) ==
  [kind |-> "yield", shape |-> "triple", audio |-> audio, error |-> None]

\* the statements of inference after its while loop
InferenceFinalYield(segs) ==
  IF segs = << >> THEN YieldedError("No audio generated")
  ELSE YieldedAudio(concatenate(segs))

\* inference(text) with its defaults, from the consumer's first next() to the
\* first response_queue.get(): enable_reference_audio is False, so the request
\* carries prompt_tokens=None
inference(c) ==
  /\ Constructed
  /\ callPc[c] = "new"
  /\ \E text \in Texts :
       llama_queue_put(GenerateRequest(c, text, NoArray))
  /\ response_queue' = [response_queue EXCEPT ![c] = << >>]
  /\ callPc' = [callPc EXCEPT ![c] = "inference_get"]
  /\ UNCHANGED << ctorVars, workerVars, pushed, segments,
                  outputs, temp_output_wav >>
  /\ UNCHANGED otherVars

\* one turn of the while loop: response_queue.get() blocks while the queue is
\* empty; the generator runs on to its next get() or to its next yield
inference_get(c) ==
  /\ callPc[c] = "inference_get"
  /\ response_queue[c] # << >>
  /\ response_queue' = [response_queue EXCEPT ![c] = Tail(@)]
  /\ LET result == Head(response_queue[c]) IN
       IF result.status = "error" THEN
         /\ outputs' = [outputs EXCEPT ![c] =
                          Append(@, YieldedError("Error in inference"))]
         /\ callPc' = [callPc EXCEPT ![c] = "inference_error_yielded"]
         /\ UNCHANGED segments
       ELSE IF result.action = "next" THEN
         /\ outputs' = [outputs EXCEPT ![c] =
                          Append(@, InferenceFinalYield(segments[c]))]
         /\ callPc' = [callPc EXCEPT ![c] = "inference_final_yielded"]
         /\ UNCHANGED segments
       ELSE
         /\ segments' = [segments EXCEPT ![c] =
                           Append(@, decode_vq_tokens(result.codes))]
         /\ UNCHANGED << outputs, callPc >>
  /\ UNCHANGED << ctorVars, workerVars, input_queue, puts,
                  pushed, temp_output_wav >>
  /\ UNCHANGED otherVars

\* the consumer asks the suspended generator for its next value: after the
\* error tuple the generator breaks out of the loop and runs the statements
\* after it; after the last yield it returns
inference_next(c) ==
  /\ callPc[c] \in {"inference_error_yielded", "inference_final_yielded"}
  /\ IF callPc[c] = "inference_error_yielded" THEN
       /\ outputs' = [outputs EXCEPT ![c] =
                        Append(@, InferenceFinalYield(segments[c]))]
       /\ callPc' = [callPc EXCEPT ![c] = "inference_final_yielded"]
       /\ UNCHANGED << segments >>
     ELSE
       /\ callPc' = [callPc EXCEPT ![c] = "returned"]
       /\ DropFrame(c)
       /\ UNCHANGED outputs
  /\ UNCHANGED << ctorVars, workerVars, queueVars, temp_output_wav >>
  /\ UNCHANGED otherVars

\* -------------------------------------------------------------------- Next
Next ==
  \/ launch_thread_safe_queue
  \/ init_event_wait
  \/ load_decoder_model
  \/ _prepare_reference_files
  \/ worker_load_model
  \/ worker_init_raises
  \/ worker_setup_caches
  \/ worker_init_event_set
  \/ worker_get
  \/ worker_put_chunk
  \/ worker_loop_end
  \/ worker_except
  \/ \E c \in Calls : generate_audio(c)
  \/ \E c \in Calls : generate_audio_resume(c)
  \/ \E c \in Calls : inference(c)
  \/ \E c \in Calls : inference_get(c)
  \/ \E c \in Calls : inference_next(c)

Spec == Init /\ [][Next]_vars

\* the engine with callers that all use generate_audio
NextGenerate ==
  \/ launch_thread_safe_queue
  \/ init_event_wait
  \/ load_decoder_model
  \/ _prepare_reference_files
  \/ worker_load_model
  \/ worker_init_raises
  \/ worker_setup_caches
  \/ worker_init_event_set
  \/ worker_get
  \/ worker_put_chunk
  \/ worker_loop_end
  \/ worker_except
  \/ \E c \in Calls : generate_audio(c)
  \/ \E c \in Calls : generate_audio_resume(c)

SpecGenerate == Init /\ [][NextGenerate]_vars

\* ------------------------------------------------------------ properties
Last(seq) == seq[Len(seq)]

\* the request of call c waits in the worker's queue
Queued(c) == \E i \in 1..Len(input_queue) : input_queue[i].response_queue = c
\* the worker is running generate_long for the request of call c
Active(c) == workerPc = "generate" /\ item.response_queue = c
\* the worker has dequeued the request of call c and is done with it
Ended(c) == callPc[c] # "new" /\ ~Queued(c) /\ ~Active(c)
\* the stream of call c ended with the error marker
Errored(c) == pushed[c] # << >> /\ Last(pushed[c]).status = "error"
\* the stream of call c ended with the end-of-generation marker
Completed(c) == pushed[c] # << >> /\ Last(pushed[c]) = NextChunk
\* the "sample" chunks put so far for call c
NumSamples(c) == Cardinality({i \in 1..Len(pushed[c]) : pushed[c][i].action = "sample"})
\* the call c was made through generate_audio
IsGenerateAudio(c) == callPc[c] \in {"await_get", "returned", "raised"}

\* C1: requests are served strictly in submission order: the queue holds the
\* requests not yet dequeued in the order they were put, the k-th request the
\* worker dequeues is the k-th one submitted, and when the worker starts on it
\* every request submitted before it has been processed to its end.
C1_FIFO ==
  /\ \A i \in 1..Len(input_queue) : input_queue[i].seq = gets + i
  /\ puts = gets + Len(input_queue)
  /\ workerPc = "generate" => item.seq = gets /\ ends = gets - 1

\* two requests were submitted; the first is being processed and has produced
\* a chunk while the second waits in the queue
C1_Witness ==
  /\ workerPc = "generate"
  /\ item.seq = 1
  /\ genPos >= 1
  /\ Len(input_queue) = 1
  /\ input_queue[1].seq = 2

\* C2: at most one request is being processed by the worker at any time: the
\* requests dequeued and not yet ended are none, or the one the worker holds.
C2_AtMostOneActive ==
  /\ gets - ends \in {0, 1}
  /\ gets - ends = 1 <=> workerPc = "generate"
  /\ Cardinality({c \in Calls : Active(c)}) <= 1
  /\ \A c \in Calls :
       (pushed[c] # << >> /\ ~IsTerminal(Last(pushed[c]))) => Active(c)

\* every call has submitted its request and one of them is being processed
C2_Witness ==
  /\ puts = NumCalls
  /\ Len(input_queue) = NumCalls - 1
  /\ \E c \in Calls : Active(c) /\ Len(pushed[c]) = MaxChunks

\* a stream of zero or more "sample" chunks with status "success", where a
\* terminal marker can only be the last element
WellFormedStream(stream) ==
  \A i \in 1..Len(stream) :
    IF i < Len(stream)
    THEN stream[i].status = "success" /\ stream[i].action = "sample"
    ELSE stream[i].status \in {"success", "error"}

C4_FailureIsolated ==
  /\ init_event => workerPc \in {"get", "generate"}
  /\ \A c \in Calls :
       (Errored(c) /\ response_queue[c] = << >>) =>
         /\ callPc[c] \in {"raised", "inference_error_yielded",
                           "inference_final_yielded", "returned"}
         /\ outputs[c] # << >>
         /\ outputs[c][1].error = "Error in inference"
  /\ \A c \in Calls : (callPc[c] # "new" /\ ~Ended(c)) => workerPc # "dead"

\* R1 raised after two chunks and its generate_audio call raised; R2, which
\* was submitted second, has been generated to its end afterwards and its
\* generate_audio call has returned audio
C4_Witness ==
  \E c1, c2 \in Calls :
    /\ c1 # c2
    /\ pushed[c1] = << SampleChunk(c1, 1), SampleChunk(c1, 2), ErrorResponse >>
    /\ callPc[c1] = "raised"
    /\ Active(c2) /\ item.seq = 2 /\ genEnded
    /\ callPc[c2] = "returned"
    /\ outputs[c2][1].audio # << >>

\* C5: when generate_long raised partway, the caller side gives out no audio
\* built from the chunks received before the error, for generate_audio and
\* for inference alike.
C5_NoAudioAfterError ==
  \A c \in Calls :
    Errored(c) => \A i \in 1..Len(outputs[c]) : outputs[c][i].audio = << >>

\* C6: chunks of different requests are never mixed: the i-th chunk on the
\* response queue of a call is the i-th chunk generated for that call's own
\* request, the caller decodes exactly those, in order, and while one request
\* is being generated every other stream is either untouched or already
\* terminated.
C6_NoInterleaving ==
  \A c \in Calls :
    /\ \A i \in 1..Len(pushed[c]) :
         pushed[c][i].action = "sample" => pushed[c][i].codes = << c, i >>
    /\ Len(response_queue[c]) <= Len(pushed[c])
    /\ response_queue[c] =
         SubSeq(pushed[c], Len(pushed[c]) - Len(response_queue[c]) + 1,
                Len(pushed[c]))
    /\ \A i \in 1..Len(segments[c]) : segments[c][i] = << [pcm |-> << c, i >>] >>
    /\ \A d \in Calls \ {c} :
         Active(c) => pushed[d] = << >> \/ IsTerminal(Last(pushed[d]))

\* both requests have produced chunks and both callers have decoded some; the
\* second one is still being generated
C6_Witness ==
  \E c1, c2 \in Calls :
    /\ c1 # c2
    /\ Len(pushed[c1]) >= 2 /\ segments[c1] # << >>
    /\ Active(c2) /\ genPos >= 1 /\ segments[c2] # << >>

\* the audio made of the first n chunks generated for call c
ExpectedAudio(c, n) == [i \in 1..n |-> [pcm |-> << c, i >>]]

\* C7: for a request that completes normally the caller decodes the chunks in
\* the order they were generated, and the audio it returns is the decoded
\* fragments of all the request's chunks joined in that order.
C7_AudioIsConcatenation ==
  \A c \in Calls :
    /\ Len(segments[c]) <= NumSamples(c)
    /\ \A i \in 1..Len(segments[c]) :
         segments[c][i] = << [pcm |-> pushed[c][i].codes] >>
    /\ \A i \in 1..Len(outputs[c]) :
         (outputs[c][i].kind = "return"
            \/ (Completed(c) /\ outputs[c][i].audio # << >>)) =>
           /\ Completed(c)
           /\ NumSamples(c) >= 1
           /\ outputs[c][i].audio = ExpectedAudio(c, NumSamples(c))

\* a generate_audio call has returned audio made of two fragments
C7_Witness ==
  \E c \in Calls :
    /\ callPc[c] = "returned"
    /\ outputs[c][1].kind = "return"
    /\ Len(outputs[c][1].audio) = 2

\* C8: nothing is dequeued or submitted before initialization has finished:
\* the model is loaded and its caches are set up once, the event is set only
\* after both, launch_thread_safe_queue returns only after the event is set,
\* and every request is put, dequeued and processed with the worker ready.
C8_ReadyBeforeServing ==
  /\ model_loads <= 1 /\ cache_setups <= 1 /\ cache_setups <= model_loads
  /\ init_event => model_loads = 1 /\ cache_setups = 1
  /\ ctorPc \in {"load_decoder", "prepare_refs", "done"} => init_event
  /\ (puts > 0 \/ gets > 0 \/ input_queue # << >>) => init_event
  /\ workerPc \in {"get", "generate"} => init_event
  /\ \A c \in Calls : callPc[c] # "new" => init_event /\ Constructed

\* a request is being processed, after the one initialization
C8_Witness ==
  /\ workerPc = "generate"
  /\ gets >= 1
  /\ init_event /\ model_loads = 1 /\ cache_setups = 1

\* C9: a generate_audio call with empty text never reaches the worker: no
\* request with empty text put by generate_audio is in the worker's queue or
\* being generated.
C9_EmptyTextNotEnqueued ==
  /\ \A i \in 1..Len(input_queue) :
       IsGenerateAudio(input_queue[i].response_queue) => input_queue[i].text # ""
  /\ (workerPc = "generate" /\ IsGenerateAudio(item.response_queue)) =>
       item.text # ""

\* C10: generate_audio enqueues no request for a voice that is not listed or
\* has no reference tokens: every request it puts carries the reference tokens
\* of a voice get_available_voices lists.
C10_UnknownVoiceNotEnqueued ==
  \A i \in 1..Len(input_queue) :
    IsGenerateAudio(input_queue[i].response_queue) =>
      \E v \in ListedVoices : input_queue[i].prompt_tokens = << v >>


\* ----------------- StyleTTS2Engine.generate_audio: the segmented engine
\* the loop of generate_audio is followed over at most MaxSegments segments
MaxSegments == 3
\* "if len(text) > 150000"
MaxTextLen == 150000

Min(a, b) == IF a < b THEN a ELSE b

\* the argument text, by its length and whether text.strip() is empty
StyleTexts ==
  { t \in [length : {0, 1, 2, 3, MaxTextLen, MaxTextLen + 1}, blank : BOOLEAN] :
      t.length = 0 => t.blank }

\* txtsplit(text): the text cut into one or more segments, here numbered
txtsplit(text) ==
  { [i \in 1..n |-> i] : n \in 1..Min(MaxSegments, text.length) }

\* inference(t, noise, ...) returns a waveform, returns None or raises
InferenceOutcomes == {"audio", "None", "raise"}
\* the waveform inference returns for the segment t
SegmentAudio(t) == << [pcm |-> << t >>] >>

\* return audio, None
ReturnedPair(audio) ==
  [kind |-> "return", shape |-> "pair", audio |-> audio, error |-> None]
\* "except Exception as e: self.logger.error(...)": the function then ends
\* without a return statement, the call returns None; error is the logged e
LoggedAndReturnedNone(e) ==
  [kind |-> "return", shape |-> "None", audio |-> << >>, error |-> e]

\* a call with some text
StyleInit ==
  /\ stylePc = "call"
  /\ style_text \in StyleTexts
  /\ texts = << >>
  /\ style_i = 0
  /\ audios = << >>
  /\ style_out = NoOutput

\* generate_audio from its first line to the for loop
StyleTTS2_generate_audio ==
  /\ stylePc = "call"
  /\ IF style_text.blank THEN
       \* raise ValueError("Empty text input")
       /\ style_out' = LoggedAndReturnedNone("Empty text input")
       /\ stylePc' = "done"
       /\ UNCHANGED texts
     ELSE IF style_text.length > MaxTextLen THEN
       \* raise ValueError("Text is too long")
       /\ style_out' = LoggedAndReturnedNone("Text is too long")
       /\ stylePc' = "done"
       /\ UNCHANGED texts
     ELSE
       /\ texts' \in txtsplit(style_text)
       /\ stylePc' = "loop"
       /\ UNCHANGED style_out
  /\ UNCHANGED << style_text, style_i, audios >>
  /\ UNCHANGED << fishVars, pickVars, exportVars, listVars >>

\* one turn of "for t in texts"
StyleTTS2_loop_body ==
  /\ stylePc = "loop"
  /\ style_i < Len(texts)
  /\ style_i' = style_i + 1
  /\ \E audio_segment \in InferenceOutcomes :
       IF audio_segment = "raise" THEN
         /\ style_out' = LoggedAndReturnedNone("inference raised")
         /\ stylePc' = "done"
         /\ UNCHANGED audios
       ELSE IF audio_segment = "audio" THEN
         /\ audios' = Append(audios, SegmentAudio(texts[style_i + 1]))
         /\ UNCHANGED << style_out, stylePc >>
       ELSE
         \* logger.error("Inference returned None for text segment ...")
         UNCHANGED << audios, style_out, stylePc >>
  /\ UNCHANGED << style_text, texts >>
  /\ UNCHANGED << fishVars, pickVars, exportVars, listVars >>

\* the statements after the for loop
StyleTTS2_after_loop ==
  /\ stylePc = "loop"
  /\ style_i = Len(texts)
  /\ stylePc' = "done"
  /\ IF audios = << >> THEN
       \* raise ValueError("No audio segments were generated")
       style_out' = LoggedAndReturnedNone("No audio segments were generated")
     ELSE
       style_out' = ReturnedPair(from_wav(concatenate(audios)).frames)
  /\ UNCHANGED << style_text, texts, style_i, audios >>
  /\ UNCHANGED << fishVars, pickVars, exportVars, listVars >>

InitStyle == FishInit /\ PickIdle /\ ExportIdle /\ StyleInit /\ ListIdle

NextStyle ==
  \/ StyleTTS2_generate_audio
  \/ StyleTTS2_loop_body
  \/ StyleTTS2_after_loop

SpecStyle == InitStyle /\ [][NextStyle]_vars

\* C11: a generate_audio call in which the backend faulted or the input was
\* rejected ends with a raised failure, never with a normal return
C11_FaultsAreRaised ==
  (stylePc = "done" /\ style_out.error # None) => style_out.kind = "raise"

\* C12: a returned buffer holds one fragment for every segment of the text,
\* in input order
C12_NoSegmentMissing ==
  (stylePc = "done" /\ style_out.shape = "pair") =>
    style_out.audio = [i \in 1..Len(texts) |-> [pcm |-> << texts[i] >>]]

\* ------------------------------------------ TTSEngine.pick_random_voice
\* longest list of available voices the call is given
MaxVoices == 3
\* voice ids as get_available_voices lists them: file and folder names
VoiceNames == {"A", "B", "C"}
\* available_voices is a list: its order and its repetitions are kept
VoiceLists == UNION { [1..n -> VoiceNames] : n \in 0..MaxVoices }
\* previous_voice: a voice, None (the default) or the empty string
PreviousVoices == VoiceNames \cup {None, ""}

\* the truth value Python gives an Optional[str]
Truthy(s) == s # None /\ s # ""
\* x in list
Contains(list, x) == \E i \in 1..Len(list) : list[i] = x
\* [voice for voice in list if voice != x]
Without(list, x) == SelectSeq(list, LAMBDA voice : voice # x)

\* mutant of voices_to_choose_from: the previous voice is not filtered out
voices_to_choose_from_unfiltered(available, previous) == available

\* the local voices_to_choose_from
voices_to_choose_from(available, previous) ==
  IF Truthy(previous) /\ Contains(available, previous)
  THEN Without(available, previous)
  ELSE available

Returned(value) == [kind |-> "return", value |-> value]
ValueError(msg) == [kind |-> "raise", value |-> msg]
NoVoicesMsg == "No available voices to select from."
OnlyOneVoiceMsg == "Only one voice available, cannot pick a different one."

\* random.choice(list) of a non-empty list: any of its elements
random_choice(list) == { Returned(list[i]) : i \in 1..Len(list) }

\* mutant of PickOutcomes: the check "if not available_voices" is left out
PickOutcomes_unchecked(available, previous) ==
  LET pool == voices_to_choose_from(available, previous) IN
    IF Len(pool) = 0 THEN {ValueError(OnlyOneVoiceMsg)}
    ELSE random_choice(pool)

\* everything pick_random_voice(available, previous) can return or raise
PickOutcomes(available, previous) ==
  IF Len(available) = 0 THEN {ValueError(NoVoicesMsg)}
  ELSE LET pool == voices_to_choose_from(available, previous) IN
         IF Len(pool) = 0 THEN {ValueError(OnlyOneVoiceMsg)}
         ELSE random_choice(pool)

\* a call with some list and some previous voice
PickInit ==
  /\ pickPc = "call"
  /\ available_voices \in VoiceLists
  /\ previous_voice \in PreviousVoices
  /\ picked = NoOutcome

\* pick_random_voice(available_voices, previous_voice)
pick_random_voice ==
  /\ pickPc = "call"
  /\ picked' \in PickOutcomes(available_voices, previous_voice)
  /\ pickPc' = IF picked'.kind = "return" THEN "returned" ELSE "raised"
  /\ UNCHANGED << available_voices, previous_voice >>
  /\ UNCHANGED << fishVars, exportVars, styleVars, listVars >>

InitPick == FishInit /\ PickInit /\ ExportIdle /\ StyleIdle /\ ListIdle

NextPick == pick_random_voice

SpecPick == InitPick /\ [][NextPick]_vars

\* C13: when previous_voice is a member of available_voices the call never
\* returns it; whatever it returns is a member of available_voices; and the
\* call leaves the list it was given as it was.
C13_NeverPrevious ==
  /\ [](pickPc = "returned" =>
          /\ Contains(available_voices, picked.value)
          /\ Contains(available_voices, previous_voice) =>
               picked.value # previous_voice)
  /\ [][available_voices' = available_voices]_vars

\* with available ["A", "B"] and previous "A" the call has returned "B"
C13_Witness ==
  /\ pickPc = "returned"
  /\ available_voices = << "A", "B" >>
  /\ previous_voice = "A"
  /\ picked = Returned("B")

\* C14: the call raises "No available voices" when the list is empty, raises
\* "Only one voice available" when previous_voice is in the list and nothing
\* else is, and returns a voice in every other case.
C14_FailureKinds ==
  pickPc \in {"returned", "raised"} =>
    IF available_voices = << >> THEN picked = ValueError(NoVoicesMsg)
    ELSE IF /\ Contains(available_voices, previous_voice)
            /\ \A i \in 1..Len(available_voices) :
                 available_voices[i] = previous_voice
      THEN picked = ValueError(OnlyOneVoiceMsg)
    ELSE pickPc = "returned" /\ picked.kind = "return"

\* the list holds nothing but the previous voice and the call has raised
C14_Witness ==
  /\ pickPc = "raised"
  /\ available_voices = << "A", "A" >>
  /\ previous_voice = "A"
  /\ picked = ValueError(OnlyOneVoiceMsg)

\* ------------------------------------------------ TTSEngine.export_audio
\* the arguments that decide what export_audio does; text_id and podcast_id
\* are Optional[int], 0 stands for None and for 0, which are both false
ExportArgs ==
  [title : {None, "t"}, vtt_temp_file : {None, "x.vtt"},
   audio_type : {None, "url/full", "text/tldr", "podcast"},
   article_id : {None, "a1"}, text_id : {0, 7}, podcast_id : {0, 9}]

\* the truth value Python gives an Optional[int]
TruthyInt(n) == n # 0

\* the calls of the export itself, in the order the try block makes them;
\* both branches of "if not output_path.endswith('.mp3')" make the same two
ExportSteps(args) ==
  (IF ~Truthy(args.title) THEN << "generate_title" >> ELSE << >>)
  \o << "get_output_files", "audio.export", "add_mp3_tags",
        "write_markdown_file" >>
  \o (IF Truthy(args.vtt_temp_file) THEN << "shutil.move" >> ELSE << >>)

\* mutant of RecordUpdate: the three identifiers are tested independently
RecordUpdate_independent(args) ==
  (IF Truthy(args.article_id) THEN << "update_article" >> ELSE << >>)
  \o (IF TruthyInt(args.text_id) THEN << "update_text" >> ELSE << >>)
  \o (IF TruthyInt(args.podcast_id) /\ args.audio_type = "podcast"
      THEN << "update_podcast" >> ELSE << >>)

\* the if / elif / elif chain on article_id, text_id, podcast_id
RecordUpdate(args) ==
  IF Truthy(args.article_id) THEN
    \* audio_type == "url/full" or "url/tldr"
    IF args.audio_type = "url/full" \/ Truthy("url/tldr")
    THEN << "update_article" >> ELSE << >>
  ELSE IF TruthyInt(args.text_id) THEN
    \* audio_type == "text/full" or "text/tldr"
    IF args.audio_type = "text/full" \/ Truthy("text/tldr")
    THEN << "update_text" >> ELSE << >>
  ELSE IF TruthyInt(args.podcast_id) THEN
    IF args.audio_type = "podcast"
    THEN << "update_podcast" >> ELSE << >>
  ELSE << >>

\* a call with some arguments
ExportInit ==
  /\ exportPc = "call"
  /\ export_args \in ExportArgs
  /\ export_log = << >>
  /\ export_failed = None

\* mutant of export_audio: a call that raises is logged and the function
\* goes on with the next one
export_audio_goes_on ==
  /\ exportPc = "call"
  /\ LET plan == ExportSteps(export_args) \o RecordUpdate(export_args) IN
       /\ export_log' = plan
       /\ \E n \in 0..Len(plan) :
            export_failed' = IF n = 0 THEN None ELSE plan[n]
       /\ exportPc' = "returned"
  /\ UNCHANGED export_args
  /\ UNCHANGED << fishVars, pickVars, styleVars, listVars >>

\* export_audio(...): the calls of the try block are made in order; either
\* all of them return and the function returns output_path, or one of them
\* raises, which ends the try block: the handler logs and re-raises
export_audio ==
  /\ exportPc = "call"
  /\ LET plan == ExportSteps(export_args) \o RecordUpdate(export_args) IN
       \/ /\ export_log' = plan
          /\ export_failed' = None
          /\ exportPc' = "returned"
       \/ \E n \in 1..Len(plan) :
            /\ export_log' = SubSeq(plan, 1, n)
            /\ export_failed' = plan[n]
            /\ exportPc' = "raised"
  /\ UNCHANGED export_args
  /\ UNCHANGED << fishVars, pickVars, styleVars, listVars >>

InitExport == FishInit /\ PickIdle /\ ExportInit /\ StyleIdle /\ ListIdle

NextExport == export_audio

SpecExport == InitExport /\ [][NextExport]_vars

UpdateCalls == {"update_article", "update_text", "update_podcast"}
\* the record-update calls a call of export_audio made
UpdatesMade == SelectSeq(export_log, LAMBDA call : call \in UpdateCalls)
ExportEnded == exportPc \in {"returned", "raised"}
\* the update of the first identifier that is set, in the order article,
\* text, podcast
FirstMatching(args) ==
  IF Truthy(args.article_id) THEN "update_article"
  ELSE IF TruthyInt(args.text_id) THEN "update_text"
  ELSE IF TruthyInt(args.podcast_id) THEN "update_podcast"
  ELSE None

\* C15: a call of export_audio makes at most one record update, the one of
\* the first identifier set in the order article, text, podcast; with an
\* article and a text identifier both set, a call that returns has made
\* exactly one update, the article's.
C15_AtMostOneUpdate ==
  ExportEnded =>
    /\ Len(UpdatesMade) <= 1
    /\ Len(UpdatesMade) = 1 => UpdatesMade[1] = FirstMatching(export_args)
    /\ ( /\ exportPc = "returned"
         /\ Truthy(export_args.article_id)
         /\ TruthyInt(export_args.text_id) ) =>
         UpdatesMade = << "update_article" >>

\* article_id, text_id and podcast_id are all set and the call has returned
C15_Witness ==
  /\ exportPc = "returned"
  /\ export_args.article_id = "a1"
  /\ export_args.text_id = 7
  /\ export_args.podcast_id = 9
  /\ UpdatesMade = << "update_article" >>

\* C16: a record update is made only after every call of the export has
\* returned; a call that raises makes export_audio raise, with no record
\* update after it and no call made twice.
C16_UpdateAfterExport ==
  ExportEnded =>
    /\ \A i \in 1..Len(export_log) :
         export_log[i] \in UpdateCalls =>
           SubSeq(export_log, 1, i - 1) = ExportSteps(export_args)
    /\ export_failed # None =>
         /\ exportPc = "raised"
         /\ export_log[Len(export_log)] = export_failed
         /\ export_failed \notin UpdateCalls => UpdatesMade = << >>
    /\ \A i, j \in 1..Len(export_log) :
         i # j => export_log[i] # export_log[j]

\* add_mp3_tags raised in a call that has an article to update
C16_Witness ==
  /\ exportPc = "raised"
  /\ export_failed = "add_mp3_tags"
  /\ export_args.article_id = "a1"
  /\ export_log = << "generate_title", "get_output_files", "audio.export",
                     "add_mp3_tags" >>

\* ------------- get_available_voices of the directory-backed engines
ListEngines == {"piper", "fish"}
\* names of the entries a voices directory may hold
DirNames == {"amy", "bob"}
\* what an entry is: the file <name>.wav, the folder <name> holding an .onnx
\* and a .json file, the folder <name> holding only an .onnx file, or
\* another file
EntryKinds == {"wav", "folder", "folder_onnx_only", "txt"}
\* the contents of a directory: pairs << name, kind >>
DirContents ==
  { { << n, f[n] >> : n \in { m \in DirNames : f[m] # "absent" } } :
      f \in [DirNames -> EntryKinds \cup {"absent"}] }
\* a voices directory: missing, or present and readable or not
Dirs ==
  {NoDir} \cup [exists : {TRUE}, readable : BOOLEAN, entries : DirContents]

\* return voice_ids
ReturnedVoices(voice_ids, logged) ==
  [kind |-> "return", voices |-> voice_ids, error |-> logged]
\* os.listdir raised and the exception leaves the call
RaisedListing(e) == [kind |-> "raise", voices |-> {}, error |-> e]

\* os.listdir(dir): the error it raises, or None
listdir_error(dir) ==
  IF ~dir.exists THEN "FileNotFoundError"
  ELSE IF ~dir.readable THEN "PermissionError"
  ELSE None

\* a call on some engine with some voices directory
ListInit ==
  /\ listPc = "call"
  /\ list_engine \in ListEngines
  /\ list_dir \in Dirs
  /\ listed = NoListing

\* PiperTTSEngine.get_available_voices
Piper_get_available_voices ==
  /\ listPc = "call"
  /\ list_engine = "piper"
  /\ listPc' = "done"
  /\ IF ~list_dir.exists THEN
       \* logger.error("Voices directory ... does not exist."); return []
       listed' = ReturnedVoices({}, "does not exist")
     ELSE IF listdir_error(list_dir) # None THEN
       listed' = RaisedListing(listdir_error(list_dir))
     ELSE
       listed' = ReturnedVoices(
                   { n \in DirNames : << n, "folder" >> \in list_dir.entries },
                   None)
  /\ UNCHANGED << list_engine, list_dir >>
  /\ UNCHANGED << fishVars, pickVars, exportVars, styleVars >>

\* FishTTSEngine.get_available_voices
Fish_get_available_voices ==
  /\ listPc = "call"
  /\ list_engine = "fish"
  /\ listPc' = "done"
  /\ IF listdir_error(list_dir) # None THEN
       \* logger.error("Error getting available voices: ..."); raise
       listed' = RaisedListing(listdir_error(list_dir))
     ELSE
       listed' = ReturnedVoices(
                   { n \in DirNames : << n, "wav" >> \in list_dir.entries },
                   None)
  /\ UNCHANGED << list_engine, list_dir >>
  /\ UNCHANGED << fishVars, pickVars, exportVars, styleVars >>

InitList == FishInit /\ PickIdle /\ ExportIdle /\ StyleIdle /\ ListInit

NextList ==
  \/ Piper_get_available_voices
  \/ Fish_get_available_voices

SpecList == InitList /\ [][NextList]_vars

\* C17: get_available_voices of a voices directory that is missing or cannot
\* be read ends with a raised failure, never with a returned list
C17_DiscoveryFailureRaised ==
  (listPc = "done" /\ listdir_error(list_dir) # None) => listed.kind = "raise"

\* ------------------------------------- the worker-backed engine, continued
\* C18: whatever a generate_audio call returns is a pair (audio, caption
\* path or None), never a bare audio value
C18_ReturnsPair ==
  \A c \in Calls : \A i \in 1..Len(outputs[c]) :
    (IsGenerateAudio(c) /\ outputs[c][i].kind = "return") =>
      outputs[c][i].shape = "pair"

\* the call c waits for a chunk the worker has not put yet
WaitsForChunk(c) == callPc[c] = "await_get" /\ response_queue[c] = << >>

\* C19: while a generate_audio call waits for a response chunk, every other
\* generate_audio call can take its next step on the event loop: one that
\* has not started can submit its request, one whose chunk has come can
\* resume.
C19_LoopNotBlocked ==
  \A c \in Calls : WaitsForChunk(c) =>
    \A d \in Calls \ {c} :
      /\ callPc[d] = "new" => ENABLED generate_audio(d)
      /\ (callPc[d] = "await_get" /\ response_queue[d] # << >>) =>
           ENABLED generate_audio_resume(d)

\* the worker runs the request of one call, which has waited since it put
\* it, and another call has put its request behind it in the meantime
C19_Witness ==
  \E c, d \in Calls :
    /\ c # d
    /\ WaitsForChunk(c) /\ Active(c) /\ pushed[c] = << >>
    /\ callPc[d] = "await_get" /\ Queued(d)

\* C20: the worker is never held up by a response queue its caller does not
\* drain: whatever the queues hold, it can put every chunk and the error
\* marker, end the request and take the next one.
C20_WorkerUnaffected ==
  /\ workerPc = "generate" =>
       /\ generate_long(genPos, genEnded) \cap {"sample", "next"} # {} =>
            ENABLED worker_put_chunk
       /\ "raise" \in generate_long(genPos, genEnded) => ENABLED worker_except
       /\ "return" \in generate_long(genPos, genEnded) =>
            ENABLED worker_loop_end
  /\ (workerPc = "get" /\ input_queue # << >>) => ENABLED worker_get

\* a call never took a chunk from its response queue, the worker put the
\* whole stream of its request on it and is putting chunks of the next one
C20_Witness ==
  \E c, d \in Calls :
    /\ c # d
    /\ Len(pushed[c]) >= 2 /\ IsTerminal(Last(pushed[c]))
    /\ response_queue[c] = pushed[c]
    /\ Active(d) /\ pushed[d] # << >>
    /\ response_queue[d] = pushed[d]

\* ---------------------------- the worker-backed engine, generate_audio only
\* what the generate_audio call c returned, if it returned
ReturnOf(c) == Last(outputs[c])
HasReturned(c) ==
  IsGenerateAudio(c) /\ callPc[c] = "returned" /\ outputs[c] # << >>

\* C21: the audio a generate_audio call returns is built from the chunks of
\* its own request only, in whatever order the calls take their steps,
\* although every call writes temp_output.wav and reads it back.
C21_OwnChunksOnly ==
  \A c \in Calls : HasReturned(c) =>
    /\ ReturnOf(c).kind = "return"
    /\ \A i \in 1..Len(ReturnOf(c).audio) : ReturnOf(c).audio[i].pcm[1] = c

\* two calls have returned audio and temp_output.wav holds the audio of the
\* other one
C21_Witness ==
  \E c, d \in Calls :
    /\ c # d
    /\ HasReturned(c) /\ HasReturned(d)
    /\ ReturnOf(c).audio # << >>
    /\ temp_output_wav = ReturnOf(d).audio
    /\ temp_output_wav # ReturnOf(c).audio

\* ----------------- the worker-backed engine, its voice reference files
\* <voice>.wav with no samples, one wavfile.read cannot read, and one
\* shorter than a second
WavEmpty == [exists |-> TRUE, readable |-> TRUE, size |-> 0, sr |-> 2]
WavUnreadable == [exists |-> TRUE, readable |-> FALSE, size |-> 3, sr |-> 2]
WavShort == [exists |-> TRUE, readable |-> TRUE, size |-> 1, sr |-> 2]
\* the files a voices directory may hold for one voice
VoiceFiles ==
  [wav : {WavOk, WavEmpty, WavUnreadable, WavShort, NoWav}, npy : BOOLEAN]

\* the engine is constructed over some voices directory
RefsInit ==
  /\ FishStart
  /\ voices_dir \in [VoiceIds -> VoiceFiles]

\* a file <v>.wav is copied into the voices directory of the constructed
\* engine
wav_file_appears ==
  /\ Constructed
  /\ \E v \in VoiceIds :
       /\ ~voices_dir[v].wav.exists
       /\ voices_dir' = [voices_dir EXCEPT ![v].wav = WavOk]
  /\ UNCHANGED << ctorPc, workerVars, queueVars, callVars >>
  /\ UNCHANGED otherVars

InitRefs == RefsInit /\ PickIdle /\ ExportIdle /\ StyleIdle /\ ListIdle

\* the constructor, the worker up to its readiness, the voices directory
\* and the requests generate_audio puts
NextRefs ==
  \/ launch_thread_safe_queue
  \/ init_event_wait
  \/ load_decoder_model
  \/ _prepare_reference_files
  \/ worker_load_model
  \/ worker_setup_caches
  \/ worker_init_event_set
  \/ wav_file_appears
  \/ \E c \in Calls : generate_audio(c)

SpecRefs == InitRefs /\ [][NextRefs]_vars

\* C22: whenever generate_audio accepts a request, the reference tokens of
\* every voice get_available_voices lists are there for the request to carry
C22_ListedVoicesPrepared ==
  \A c \in Calls : (callPc[c] = "new" /\ ENABLED generate_audio(c)) =>
    \A v \in ListedVoices : _load_reference_tokens(v) = << v >>

\* ------------------- the worker-backed engine, generate_audio, with fairness
\* the worker thread, once it can take a step, takes one; so does the
\* executor thread of each call together with the coroutine it wakes
FairGenerate ==
  /\ SpecGenerate
  /\ WF_vars(worker_get)
  /\ WF_vars(worker_put_chunk \/ worker_except \/ worker_loop_end)
  /\ \A c \in Calls : WF_vars(generate_audio_resume(c))

C24_UpdateWhateverAudioType ==
  (exportPc = "returned" /\ FirstMatching(export_args) # None) =>
    UpdatesMade = << FirstMatching(export_args) >>

\* ------------------------------------ the worker-backed engine, continued
\* C25: launch_thread_safe_queue returns only with the event set; when
\* load_model or setup_caches raises in the worker thread the event is never
\* set, the constructor stays at init_event.wait() and nothing of the engine
\* can take a step any more: the constructor neither returns nor raises.
C25_InitFailureHangs ==
  /\ ctorPc \in {"load_decoder", "prepare_refs", "done"} =>
       init_event /\ workerPc # "dead"
  /\ workerPc = "dead" =>
       /\ ~init_event
       /\ ctorPc = "wait_init"
       /\ ~ENABLED Next

\* setup_caches raised after load_model returned; the constructor waits
C25_Witness ==
  /\ workerPc = "dead"
  /\ model_loads = 1 /\ cache_setups = 0
  /\ ctorPc = "wait_init"

\* C26: a generate_audio call whose stream is the end marker alone raises
\* "No audio generated"; a call that returns has accumulated at least one
\* fragment and returns audio that is not empty.
C26_NoEmptyAudio ==
  \A c \in Calls :
    (IsGenerateAudio(c) /\ callPc[c] \in {"returned", "raised"}) =>
      /\ pushed[c] = << NextChunk >> =>
           callPc[c] = "raised" /\ ReturnOf(c) = Raised("No audio generated")
      /\ callPc[c] = "returned" =>
           /\ ReturnOf(c).kind = "return"
           /\ NumSamples(c) >= 1
           /\ ReturnOf(c).audio # << >>

\* the routine yielded its end marker first and the call has raised
C26_Witness ==
  \E c \in Calls :
    /\ IsGenerateAudio(c)
    /\ pushed[c] = << NextChunk >>
    /\ callPc[c] = "raised"
    /\ ReturnOf(c) = Raised("No audio generated")

=============================================================================
